---- MODULE Spec2Model ----
(***************************************************************************)
(* Model of the staged evaluation pipeline of src/eval.py:                 *)
(* evaluate_project, Score, finalize, and the sandbox connection factory   *)
(* fake_connection, run against a submission (manifest, files, candidate   *)
(* class) and an environment (style linter).                               *)
(***************************************************************************)
EXTENDS Integers, Sequences, FiniteSets, TLC

\* Number of evaluate_project calls made, one after the other, on the same
\* submission.
NumRuns == 2

Runs == 1..NumRuns

VARIABLES meta, files, cand, env, pc, score, result, obj, conn, caught,
          loaded, dbs, durable

vars == <<meta, files, cand, env, pc, score, result, obj, conn, caught,
          loaded, dbs, durable>>

inputs == <<meta, files, cand, env>>

(***************************************************************************)
(* The submission and its environment                                      *)
(***************************************************************************)

\* required = ["create", "read", "update", "delete"]
required == <<"create", "read", "update", "delete">>

Methods == {required[i] : i \in 1..Len(required)}

\* Physical table names a manifest may declare first.
TableNames == {"users", "items"}

\* README.json: its presence and shape, and the fields evaluate_project reads.
\*   manifest      absent | malformed (json.load raises) | nonobject (valid
\*                 JSON that is not an object) | object
\*   crud_module, crud_class, db_adapter   is the key given
\*   db_connect_fn absent | string | nonstring (e.g. null)
\*   tables        absent | the first declared physical table name
\*   sample        sample_data: nonobject | empty (absent or {}) |
\*                 name ({name}) | id_name ({id, name})
Manifests ==
    [manifest : {"absent", "malformed", "nonobject", "object"},
     crud_module : BOOLEAN, crud_class : BOOLEAN, db_adapter : BOOLEAN,
     db_connect_fn : {"absent", "string", "nonstring"},
     tables : {"absent"} \cup TableNames,
     sample : {"nonobject", "empty", "name", "id_name"}]

\* The working directory: does the CRUD file exist, does the adapter file
\* exist, does the adapter file execute without raising, does the adapter
\* module define the attribute db_connect_fn names.
FileStates == [crud : BOOLEAN, db : BOOLEAN, dbLoads : BOOLEAN, dbHasFn : BOOLEAN]

NoFault == [m |-> "none", kind |-> "none"]

\* The module's top-level code or the constructor calls sys.exit().
ImportExit == [m |-> "import", kind |-> "exit"]

\* A method of the candidate may raise an Exception, return a falsy value,
\* or raise SystemExit (sys.exit()); so may the code that runs at import.
Faults ==
    {NoFault, ImportExit} \cup [m : Methods, kind : {"raise", "falsy", "exit"}]

\* The candidate class.
\*   importOk   the module executes, the class exists and its constructor
\*              returns
\*   methods    the methods the instance has
\*   connVia    how a method gets its connection: self.conn_override() on
\*              every call, self.conn_override() once (then cached on the
\*              instance), or the factory of the adapter module it imported
\*   ownSchema  it runs CREATE TABLE IF NOT EXISTS on a connection it gets
\*   sqlStyle   create inserts with parameter binding, or concatenates the
\*              name into SQL run by execute() or by executescript()
\*   fault      one faulty method, if any; or what the import raises when it
\*              is not an Exception
Candidates ==
    [importOk : BOOLEAN, methods : SUBSET Methods,
     connVia : {"override_each", "override_cached", "adapter"},
     ownSchema : BOOLEAN,
     sqlStyle : {"bound", "concat_execute", "concat_script"},
     fault : Faults]

\* pycodestyle: returns 0, returns nonzero, is not installed
\* (FileNotFoundError), or is installed but cannot be executed
\* (PermissionError).
Linters == {"clean", "violations", "not_installed", "not_executable"}

(***************************************************************************)
(* In-memory and durable databases                                         *)
(***************************************************************************)

NoTable == [exists |-> FALSE, rows |-> {}]

\* sqlite3.connect(":memory:") : a database with no table.
EmptyDB == [t \in TableNames |-> NoTable]

Max(S) == CHOOSE x \in S : \A y \in S : y <= x

\* Result of one statement: the database after it, the exception it raised
\* ("none" if it did not), whether it touched a row.
Res(db, exc, hit) == [db |-> db, exc |-> exc, hit |-> hit]

\* CREATE TABLE t (...)
SqlCreateTable(db, t) ==
    IF db[t].exists
    THEN Res(db, "OperationalError: table already exists", FALSE)
    ELSE Res([db EXCEPT ![t] = [exists |-> TRUE, rows |-> {}]], "none", FALSE)

\* CREATE TABLE IF NOT EXISTS t (...)
SqlEnsureTable(db, t) ==
    IF db[t].exists THEN db ELSE [db EXCEPT ![t] = [exists |-> TRUE, rows |-> {}]]

\* INSERT INTO t ...; id = 0 stands for a record without id (sqlite assigns
\* max(rowid) + 1).
SqlInsert(db, t, id) ==
    IF ~db[t].exists THEN Res(db, "OperationalError: no such table", FALSE)
    ELSE LET new == IF id # 0 THEN id
                    ELSE IF db[t].rows = {} THEN 1 ELSE Max(db[t].rows) + 1
         IN IF new \in db[t].rows
            THEN Res(db, "IntegrityError: UNIQUE constraint failed", FALSE)
            ELSE Res([db EXCEPT ![t].rows = @ \cup {new}], "none", TRUE)

\* DROP TABLE t
SqlDropTable(db, t) ==
    IF ~db[t].exists THEN Res(db, "OperationalError: no such table", FALSE)
    ELSE Res([db EXCEPT ![t] = NoTable], "none", FALSE)

\* SELECT ... WHERE id = ? / UPDATE ... WHERE id = ?
SqlTouch(db, t, id) ==
    IF ~db[t].exists THEN Res(db, "OperationalError: no such table", FALSE)
    ELSE Res(db, "none", id \in db[t].rows)

\* DELETE FROM t WHERE id = ?
SqlDelete(db, t, id) ==
    IF ~db[t].exists THEN Res(db, "OperationalError: no such table", FALSE)
    ELSE Res([db EXCEPT ![t].rows = @ \ {id}], "none", id \in db[t].rows)

\* A factory that hands out one database (a file, or a shared-cache memory
\* database) instead of a new one per call.
fake_connection_shared(heap) == IF heap = <<>> THEN <<EmptyDB>> ELSE heap

\* fake_connection(): every call opens a new, empty in-memory database. The
\* heap of in-memory databases is a sequence; the connection returned is the
\* index of the last one.
fake_connection(heap) == Append(heap, EmptyDB)

(***************************************************************************)
(* Score                                                                   *)
(***************************************************************************)

\* Score.__init__
NewScore == [total |-> 0, earned |-> 0, details |-> <<>>]

Entry(ok, msg, err) == [ok |-> ok, msg |-> msg, err |-> err]

\* Score.add with `self.total += points` moved under `if condition:`.
ScoreAdd_TotalOnPass(s, points, condition, success_msg, fail_msg) ==
    [total |-> IF condition THEN s.total + points ELSE s.total,
     earned |-> IF condition THEN s.earned + points ELSE s.earned,
     details |-> Append(s.details,
                        IF condition THEN Entry(TRUE, success_msg, "")
                        ELSE Entry(FALSE, fail_msg, ""))]

\* Score.add(points, condition, success_msg, fail_msg)
ScoreAdd(s, points, condition, success_msg, fail_msg) ==
    [total |-> s.total + points,
     earned |-> IF condition THEN s.earned + points ELSE s.earned,
     details |-> Append(s.details,
                        IF condition THEN Entry(TRUE, success_msg, "")
                        ELSE Entry(FALSE, fail_msg, ""))]

\* The except clauses without their score.details.append line.
Note_Dropped(s, msg, err) == s

\* score.details.append("... " + str(e))
Note(s, msg, err) == [s EXCEPT !.details = Append(@, Entry(FALSE, msg, err))]

\* What a call of evaluate_project gives its caller: nothing yet, a returned
\* dictionary (keys names its keys) or an exception.
Outcome(status, keys, s) ==
    [status |-> status, keys |-> keys, score |-> s.earned,
     max_score |-> s.total, details |-> s.details]

\* finalize(score, report)
finalize(s) == Outcome("returned", {"score", "max_score", "details"}, s)

\* return {"error": ...}
ErrorReport == Outcome("returned", {"error"}, NewScore)

\* An exception left evaluate_project: nothing is returned.
Raised == Outcome("raised", {}, NewScore)

NoResult == Outcome("none", {}, NewScore)

(***************************************************************************)
(* The candidate's methods                                                 *)
(***************************************************************************)

\* sample_data["id"] of the manifest's sample record, when it has one.
SampleId == 1

\* The id of the record of the injection probe.
ProbeId == 999

\* The table the candidate's SQL names: the one its manifest declares.
CandTable == IF meta.tables = "absent" THEN "users" ELSE meta.tables

\* The keys of sample_data.
SampleKeys ==
    CASE meta.sample = "id_name" -> {"id", "name"}
      [] meta.sample = "name" -> {"name"}
      [] OTHER -> {}

\* The instance CRUDClass() returns: no conn_override attribute, no cached
\* connection.
NewObject == [conn_override |-> FALSE, cached |-> 0]

\* The state a stage of run r works on: the heap of in-memory databases, the
\* durable database, the candidate instance, the pending exception, the
\* truthiness of the last return value, the connection the candidate uses
\* (h) and the harness's local variable conn (0: durable, k > 0: dbs[k]).
Ctx(r) == [dbs |-> dbs, durable |-> durable, obj |-> obj[r], exc |-> "none",
           ret |-> FALSE, h |-> 0, conn |-> conn[r]]

Raise(c, e) == [c EXCEPT !.exc = e, !.ret = FALSE]

DBof(c) == IF c.h = 0 THEN c.durable ELSE c.dbs[c.h]

PutDB(c, db) ==
    IF c.h = 0 THEN [c EXCEPT !.durable = db] ELSE [c EXCEPT !.dbs[c.h] = db]

Apply(c, res, truthy) ==
    [PutDB(c, res.db) EXCEPT !.exc = res.exc,
                             !.ret = (res.exc = "none" /\ truthy)]

Faulty(m, kind) == cand.fault.m = m /\ cand.fault.kind = kind

\* Body(v), with v evaluated once.
Bind(v, Body(_)) == CHOOSE y \in {Body(x) : x \in {v}} : TRUE

\* self.conn_override(), when the instance has the attribute.
CallOverride(c, cache) ==
    IF ~c.obj.conn_override THEN Raise(c, "AttributeError: conn_override")
    ELSE Bind(fake_connection(c.dbs), LAMBDA heap :
           [c EXCEPT !.dbs = heap, !.h = Len(heap),
                     !.obj.cached = IF cache THEN Len(heap) ELSE @])

\* How a method of the candidate gets its connection.
CandConnect(c) ==
    Bind(CASE cand.connVia = "adapter" -> [c EXCEPT !.h = 0]
           [] cand.connVia = "override_each" -> CallOverride(c, FALSE)
           [] cand.connVia = "override_cached" ->
                IF c.obj.cached # 0 THEN [c EXCEPT !.h = c.obj.cached]
                ELSE CallOverride(c, TRUE),
         LAMBDA c1 :
           IF c1.exc # "none" \/ ~cand.ownSchema THEN c1
           ELSE PutDB(c1, SqlEnsureTable(DBof(c1), CandTable)))

\* A faulty method raises before it does anything else.
CandEnter(c, m) ==
    IF Faulty(m, "raise") THEN Raise(c, "Exception: candidate")
    ELSE IF Faulty(m, "exit") THEN Raise(c, "SystemExit")
    ELSE CandConnect(c)

\* create(data): id = 0 when data has no id; inj when data["name"] is the
\* injection payload "Robert'); DROP TABLE users; --".
CandCreate(c, id, inj) ==
    Bind(CandEnter(c, "create"), LAMBDA c1 :
      IF c1.exc # "none" THEN c1
      ELSE Bind(SqlInsert(DBof(c1), CandTable, id), LAMBDA ins :
        LET ok == ~Faulty("create", "falsy")
        IN IF cand.sqlStyle = "bound" \/ ~inj THEN Apply(c1, ins, ok)
           ELSE IF ins.exc = "OperationalError: no such table"
           THEN Apply(c1, ins, ok)
           ELSE IF cand.sqlStyle = "concat_execute"
           THEN Raise(c1, "ProgrammingError: one statement at a time")
           ELSE IF ins.exc # "none" THEN Apply(c1, ins, ok)
           ELSE Apply(c1, SqlDropTable(ins.db, "users"), ok)))

\* read(id): the row, or None
CandRead(c, id) ==
    Bind(CandEnter(c, "read"), LAMBDA c1 :
      IF c1.exc # "none" THEN c1
      ELSE Bind(SqlTouch(DBof(c1), CandTable, id), LAMBDA res :
        Apply(c1, res, res.hit /\ ~Faulty("read", "falsy"))))

\* update(id, fields): whether a row was updated
CandUpdate(c, id) ==
    Bind(CandEnter(c, "update"), LAMBDA c1 :
      IF c1.exc # "none" THEN c1
      ELSE Bind(SqlTouch(DBof(c1), CandTable, id), LAMBDA res :
        Apply(c1, res, res.hit /\ ~Faulty("update", "falsy"))))

\* delete(id): whether a row was deleted
CandDelete(c, id) ==
    Bind(CandEnter(c, "delete"), LAMBDA c1 :
      IF c1.exc # "none" THEN c1
      ELSE Bind(SqlDelete(DBof(c1), CandTable, id), LAMBDA res :
        Apply(c1, res, res.hit /\ ~Faulty("delete", "falsy"))))

(***************************************************************************)
(* The bodies of the try blocks of tests 5 and 6                           *)
(***************************************************************************)

\* cur.execute(f"CREATE TABLE {table_name} (id INTEGER PRIMARY KEY, {fields})")
\* with fields built from the keys of sample_data.
HarnessCreateTable(db, t, keys) ==
    IF keys = {} THEN Res(db, "OperationalError: syntax error", FALSE)
    ELSE IF "id" \in keys
    THEN Res(db, "OperationalError: duplicate column name: id", FALSE)
    ELSE SqlCreateTable(db, t)

\* conn = fake_connection()
HarnessConnect(c) ==
    Bind(fake_connection(c.dbs), LAMBDA heap :
      [c EXCEPT !.dbs = heap, !.conn = Len(heap)])

\* Lines 177-182: the four calls; c.ret is all([read_item, updated, deleted]).
RunTests(c2) ==
    Bind(CandCreate(c2, IF "id" \in SampleKeys THEN SampleId ELSE 0, FALSE),
         LAMBDA c3 :
      IF c3.exc # "none" THEN c3
      ELSE IF "id" \notin SampleKeys THEN Raise(c3, "KeyError: id")
      ELSE Bind(CandRead(c3, SampleId), LAMBDA c4 :
        IF c4.exc # "none" THEN c4
        ELSE Bind(CandUpdate(c4, SampleId), LAMBDA c5 :
          IF c5.exc # "none" THEN c5
          ELSE Bind(CandDelete(c5, SampleId), LAMBDA c6 :
            IF c6.exc # "none" THEN c6
            ELSE [c6 EXCEPT !.ret = c4.ret /\ c5.ret /\ c6.ret]))))

\* Test 5, the try block: c.ret is `passed` when no exception is pending.
FunctionalBody(c0) ==
    Bind(HarnessConnect(c0), LAMBDA c1 :
      IF meta.tables = "absent" THEN Raise(c1, "AttributeError: tables")
      ELSE Bind(HarnessCreateTable(c1.dbs[c1.conn], meta.tables, SampleKeys),
                LAMBDA ct :
        IF ct.exc # "none" THEN Raise(c1, ct.exc)
        ELSE RunTests([c1 EXCEPT !.dbs[c1.conn] = ct.db,
                                 !.obj.conn_override = TRUE])))

\* Test 6, the try block: c.ret is `still_exists` when no exception is
\* pending. table_name is unbound when test 5 raised before binding it.
InjectionBody(c0) ==
    Bind(HarnessConnect(c0), LAMBDA c1 :
      IF meta.tables = "absent" THEN Raise(c1, "NameError: table_name")
      ELSE Bind(SqlCreateTable(c1.dbs[c1.conn], meta.tables), LAMBDA ct :
        IF ct.exc # "none" THEN Raise(c1, ct.exc)
        ELSE Bind(CandCreate([c1 EXCEPT !.dbs[c1.conn] = ct.db], ProbeId, TRUE),
                  LAMBDA c3 :
          IF c3.exc # "none" THEN c3
          ELSE [c3 EXCEPT !.ret = c3.dbs[c3.conn][meta.tables].exists])))

\* `except Exception` does not catch SystemExit.
Caught(e) == e # "none" /\ e # "SystemExit"

(***************************************************************************)
(* evaluate_project, stage by stage                                        *)
(***************************************************************************)

\* Run r goes on to stage p.
Goto(r, p) == pc' = [pc EXCEPT ![r] = p] /\ UNCHANGED result

\* Run r returns v, or an exception leaves it.
Exit(r, v) ==
    /\ pc' = [pc EXCEPT ![r] = IF v.status = "raised" THEN "raised" ELSE "done"]
    /\ result' = [result EXCEPT ![r] = v]

\* The calls are made one after the other.
Turn(r) == \A q \in Runs : q < r => pc[q] \in {"done", "raised"}

\* Lines 53-71: load_metadata, the metadata fields, the two paths.
ReadManifest(r) ==
    /\ pc[r] = "manifest"
    /\ IF meta.manifest \in {"absent", "malformed"} THEN Exit(r, ErrorReport)
       ELSE IF meta.manifest = "nonobject" \/ meta.sample = "nonobject"
       THEN Exit(r, Raised)
       ELSE IF ~meta.crud_module \/ ~meta.crud_class THEN Exit(r, ErrorReport)
       ELSE IF ~meta.db_adapter THEN Exit(r, Raised)
       ELSE Goto(r, "files")
    /\ UNCHANGED <<inputs, score, obj, conn, caught, loaded, dbs, durable>>

\* A call of evaluate_project made after the calls before it have ended.
LoadManifest(r) == Turn(r) /\ ReadManifest(r)

\* Test 1 without the `return finalize(score, report)` of lines 90-91.
CheckFiles_NoGate(r) ==
    /\ pc[r] = "files"
    /\ LET s1 == ScoreAdd(score[r], 10, files.crud,
                          "CRUD module found", "CRUD module missing")
           s2 == ScoreAdd(s1, 10, files.db,
                          "DB adapter file found", "DB adapter file missing")
       IN score' = [score EXCEPT ![r] = s2] /\ Goto(r, "import")
    /\ UNCHANGED <<inputs, obj, conn, caught, loaded, dbs, durable>>

\* Lines 73-91, test 1: file existence.
CheckFiles(r) ==
    /\ pc[r] = "files"
    /\ LET s1 == ScoreAdd(score[r], 10, files.crud,
                          "CRUD module found", "CRUD module missing")
           s2 == ScoreAdd(s1, 10, files.db,
                          "DB adapter file found", "DB adapter file missing")
       IN /\ score' = [score EXCEPT ![r] = s2]
          /\ IF ~files.crud THEN Exit(r, finalize(s2)) ELSE Goto(r, "import")
    /\ UNCHANGED <<inputs, obj, conn, caught, loaded, dbs, durable>>

\* Lines 93-113, test 2: import the module, look the class up, instantiate.
\* `except Exception` does not catch SystemExit.
ImportClass(r) ==
    /\ pc[r] = "import"
    /\ LET imported == cand.importOk
           s1 == IF imported THEN score[r]
                 ELSE Note(score[r], "Could not import CRUD class", "Exception")
           s2 == ScoreAdd(s1, 20, imported, "CRUD class imported successfully",
                          "Failed to load CRUD class")
       IN IF ~imported /\ cand.fault = ImportExit
          THEN Exit(r, Raised) /\ UNCHANGED score
          ELSE /\ score' = [score EXCEPT ![r] = s2]
               /\ IF ~imported THEN Exit(r, finalize(s2))
                  ELSE Goto(r, "methods")
    /\ obj' = [obj EXCEPT ![r] = NewObject]
    /\ loaded' = [loaded EXCEPT ![r] = @ \cup {"crud_module"}]
    /\ UNCHANGED <<inputs, conn, caught, dbs, durable>>

\* for m in required: score.add(5, hasattr(crud_obj, m), ...)
RECURSIVE AddMethods(_, _)
AddMethods(s, i) ==
    IF i > Len(required) THEN s
    ELSE AddMethods(ScoreAdd(s, 5, required[i] \in cand.methods,
                             "Method " \o required[i] \o "() found",
                             "Method " \o required[i] \o "() missing"),
                    i + 1)

\* Test 3 halting only when no required method is there (any for all).
CheckMethods_AnyGate(r) ==
    /\ pc[r] = "methods"
    /\ LET s1 == AddMethods(score[r], 1)
       IN /\ score' = [score EXCEPT ![r] = s1]
          /\ IF ~(\E i \in 1..Len(required) : required[i] \in cand.methods)
             THEN Exit(r, finalize(s1))
             ELSE Goto(r, "sandbox")
    /\ UNCHANGED <<inputs, obj, conn, caught, loaded, dbs, durable>>

\* Lines 115-130, test 3: method existence.
CheckMethods(r) ==
    /\ pc[r] = "methods"
    /\ LET s1 == AddMethods(score[r], 1)
       IN /\ score' = [score EXCEPT ![r] = s1]
          /\ IF ~(\A i \in 1..Len(required) : required[i] \in cand.methods)
             THEN Exit(r, finalize(s1))
             ELSE Goto(r, "sandbox")
    /\ UNCHANGED <<inputs, obj, conn, caught, loaded, dbs, durable>>

\* Lines 132-158, test 4: load the adapter file as a new module and set its
\* connection factory attribute. setattr creates the attribute when the
\* module does not define it (files.dbHasFn is not read).
PatchDb(r) ==
    /\ pc[r] = "sandbox"
    /\ IF ~files.db \/ ~files.dbLoads
       THEN Exit(r, Raised) /\ UNCHANGED <<score, loaded>>
       ELSE LET patched_db == meta.db_connect_fn # "nonstring"
                s1 == IF patched_db THEN score[r]
                      ELSE Note(score[r], "Cannot patch DB connection",
                                "TypeError")
                s2 == ScoreAdd(s1, 10, patched_db,
                               "Database connection successfully sandboxed",
                               "Unable to sandbox database calls")
            IN /\ score' = [score EXCEPT ![r] = s2]
               /\ loaded' = [loaded EXCEPT ![r] = @ \cup {"db_module"}]
               /\ IF ~patched_db THEN Exit(r, finalize(s2))
                  ELSE Goto(r, "functional")
    /\ UNCHANGED <<inputs, obj, conn, caught, dbs, durable>>

\* Lines 160-193, test 5: CRUD functional test.
FunctionalTest(r) ==
    /\ pc[r] = "functional"
    /\ \E c \in {FunctionalBody(Ctx(r))} :
       LET passed == IF Caught(c.exc) THEN FALSE ELSE c.ret
           s1 == IF Caught(c.exc)
                 THEN Note(score[r], "CRUD runtime error", c.exc)
                 ELSE score[r]
           s2 == ScoreAdd(s1, 30, passed,
                          "CRUD operations successfully executed",
                          "CRUD functional test failed")
       IN /\ dbs' = c.dbs /\ durable' = c.durable
          /\ obj' = [obj EXCEPT ![r] = c.obj]
          /\ conn' = [conn EXCEPT ![r] = c.conn]
          /\ caught' = [caught EXCEPT ![r] = IF Caught(c.exc) THEN c.exc ELSE "none"]
          /\ IF c.exc = "SystemExit"
             THEN Exit(r, Raised) /\ UNCHANGED score
             ELSE Goto(r, "injection") /\ score' = [score EXCEPT ![r] = s2]
    /\ UNCHANGED <<inputs, loaded>>

\* Lines 195-220, test 6: SQL injection safety.
InjectionTest(r) ==
    /\ pc[r] = "injection"
    /\ \E c \in {InjectionBody(Ctx(r))} :
       LET still_exists == IF Caught(c.exc) THEN FALSE ELSE c.ret
           s1 == ScoreAdd(score[r], 20, still_exists,
                          "SQL injection protection appears safe",
                          "SQL injection vulnerability detected")
       IN /\ dbs' = c.dbs /\ durable' = c.durable
          /\ obj' = [obj EXCEPT ![r] = c.obj]
          /\ conn' = [conn EXCEPT ![r] = c.conn]
          /\ caught' = [caught EXCEPT ![r] = IF Caught(c.exc) THEN c.exc ELSE "none"]
          /\ IF c.exc = "SystemExit"
             THEN Exit(r, Raised) /\ UNCHANGED score
             ELSE Goto(r, "style") /\ score' = [score EXCEPT ![r] = s1]
    /\ UNCHANGED <<inputs, loaded>>

\* Lines 222-238, test 7: code quality.
StyleCheck(r) ==
    /\ pc[r] = "style"
    /\ IF env = "not_executable"
       THEN Exit(r, Raised) /\ UNCHANGED score
       ELSE LET is_clean == env \in {"clean", "not_installed"}
                s1 == ScoreAdd(score[r], 10, is_clean, "Code is PEP8 clean",
                               "Code style violations found")
            IN score' = [score EXCEPT ![r] = s1] /\ Exit(r, finalize(s1))
    /\ UNCHANGED <<inputs, obj, conn, caught, loaded, dbs, durable>>

(***************************************************************************)
(* Initial states and specification                                        *)
(***************************************************************************)

\* A field that no line of a run reads is fixed: the submissions below differ
\* only in what evaluate_project can observe.
PlainManifest ==
    [manifest |-> "object", crud_module |-> TRUE, crud_class |-> TRUE,
     db_adapter |-> TRUE, db_connect_fn |-> "absent", tables |-> "users",
     sample |-> "id_name"]

PlainFiles == [crud |-> TRUE, db |-> TRUE, dbLoads |-> TRUE, dbHasFn |-> TRUE]

PlainCandidate ==
    [importOk |-> TRUE, methods |-> Methods, connVia |-> "override_cached",
     ownSchema |-> FALSE, sqlStyle |-> "bound", fault |-> NoFault]

\* The manifest passes lines 56-71.
ReachesFiles ==
    /\ meta.manifest = "object" /\ meta.sample # "nonobject"
    /\ meta.crud_module /\ meta.crud_class /\ meta.db_adapter

ReachesSandbox ==
    ReachesFiles /\ files.crud /\ cand.importOk /\ cand.methods = Methods

ReachesFunctional ==
    /\ ReachesSandbox /\ files.db /\ files.dbLoads
    /\ meta.db_connect_fn # "nonstring"

\* Manifests that stop the run before line 73.
EarlyManifests ==
    {[PlainManifest EXCEPT !.manifest = k] :
        k \in {"absent", "malformed", "nonobject"}}
    \cup {[PlainManifest EXCEPT !.crud_module = m, !.crud_class = c,
                               !.db_adapter = d, !.sample = s] :
            m \in BOOLEAN, c \in BOOLEAN, d \in BOOLEAN,
            s \in {"nonobject", "id_name"}}

\* Manifests that pass line 71.
LateManifests ==
    {[PlainManifest EXCEPT !.db_connect_fn = f, !.tables = t, !.sample = s] :
        f \in {"absent", "string", "nonstring"},
        t \in {"absent"} \cup TableNames,
        s \in {"empty", "name", "id_name"}}

\* Candidates that stop the run before test 4.
EarlyCandidates ==
    {[PlainCandidate EXCEPT !.importOk = FALSE, !.fault = f] :
        f \in {NoFault, ImportExit}}
    \cup {[PlainCandidate EXCEPT !.methods = ms] : ms \in SUBSET Methods}

\* Candidates with all four methods.
LateCandidates ==
    {c \in Candidates :
        c.importOk /\ c.methods = Methods /\ c.fault # ImportExit}

Init ==
    /\ meta \in EarlyManifests \cup LateManifests
    /\ files \in FileStates
    /\ ReachesFiles \/ files = PlainFiles
    /\ files.db \/ files.dbLoads
    /\ (files.db /\ files.dbLoads) \/ files.dbHasFn
    /\ cand \in EarlyCandidates \cup LateCandidates
    /\ (ReachesFiles /\ files.crud) \/ cand = PlainCandidate
    /\ ReachesSandbox
         \/ (files.dbLoads /\ meta \in EarlyManifests \cup {PlainManifest})
    /\ env \in Linters
    /\ files.dbHasFn \/ (ReachesSandbox /\ cand = PlainCandidate /\ env = "clean")
    /\ ReachesFunctional
         \/ /\ cand \in EarlyCandidates
            /\ env = "clean"
            /\ meta.tables = "users" /\ meta.sample \in {"nonobject", "id_name"}
    /\ pc = [r \in Runs |-> "manifest"]
    /\ score = [r \in Runs |-> NewScore]
    /\ result = [r \in Runs |-> NoResult]
    /\ obj = [r \in Runs |-> NewObject]
    /\ conn = [r \in Runs |-> 0]
    /\ caught = [r \in Runs |-> "none"]
    /\ loaded = [r \in Runs |-> {}]
    /\ dbs = <<>>
    /\ durable = SqlEnsureTable(EmptyDB, CandTable)

Next ==
    \E r \in Runs :
        \/ LoadManifest(r)
        \/ CheckFiles(r)
        \/ ImportClass(r)
        \/ CheckMethods(r)
        \/ PatchDb(r)
        \/ FunctionalTest(r)
        \/ InjectionTest(r)
        \/ StyleCheck(r)

Spec == Init /\ [][Next]_vars

\* Concurrent calls (the server handles requests in threads): the same
\* submission uploaded twice, extracted to two working directories, every
\* run free to take its next stage at any time. The submissions are those
\* that pass checks 1-5 and have no faulty method.
InitConcurrent ==
    /\ Init
    /\ ReachesFunctional /\ files.dbHasFn
    /\ meta.db_connect_fn = "absent"
    /\ cand.fault = NoFault
    /\ env = "clean"

NextConcurrent ==
    \E r \in Runs :
        \/ ReadManifest(r)
        \/ CheckFiles(r)
        \/ ImportClass(r)
        \/ CheckMethods(r)
        \/ PatchDb(r)
        \/ FunctionalTest(r)
        \/ InjectionTest(r)
        \/ StyleCheck(r)

SpecConcurrent == InitConcurrent /\ [][NextConcurrent]_vars

(***************************************************************************)
(* Reading a report                                                        *)
(***************************************************************************)

\* The score.add calls of evaluate_project, in program order: the check of
\* section 4.2 each belongs to, its weight and its two messages.
CheckTable ==
    << [n |-> 1, w |-> 10, pass |-> "CRUD module found",
        fail |-> "CRUD module missing"],
       [n |-> 2, w |-> 10, pass |-> "DB adapter file found",
        fail |-> "DB adapter file missing"],
       [n |-> 3, w |-> 20, pass |-> "CRUD class imported successfully",
        fail |-> "Failed to load CRUD class"],
       [n |-> 4, w |-> 5, pass |-> "Method create() found",
        fail |-> "Method create() missing"],
       [n |-> 4, w |-> 5, pass |-> "Method read() found",
        fail |-> "Method read() missing"],
       [n |-> 4, w |-> 5, pass |-> "Method update() found",
        fail |-> "Method update() missing"],
       [n |-> 4, w |-> 5, pass |-> "Method delete() found",
        fail |-> "Method delete() missing"],
       [n |-> 5, w |-> 10, pass |-> "Database connection successfully sandboxed",
        fail |-> "Unable to sandbox database calls"],
       [n |-> 6, w |-> 30, pass |-> "CRUD operations successfully executed",
        fail |-> "CRUD functional test failed"],
       [n |-> 7, w |-> 20, pass |-> "SQL injection protection appears safe",
        fail |-> "SQL injection vulnerability detected"],
       [n |-> 8, w |-> 10, pass |-> "Code is PEP8 clean",
        fail |-> "Code style violations found"] >>

\* The rows of CheckTable a detail entry is the outcome of (none for a
\* diagnostic line).
RowsOf(e) ==
    {i \in 1..Len(CheckTable) :
        e.msg = IF e.ok THEN CheckTable[i].pass ELSE CheckTable[i].fail}

\* The rows attempted, according to the details.
Attempted(details) ==
    UNION {RowsOf(details[k]) : k \in 1..Len(details)}

\* The checks of section 4.2 with an entry in the details.
ChecksIn(details) == {CheckTable[i].n : i \in Attempted(details)}

WeightOf(e) == IF RowsOf(e) = {} THEN 0 ELSE CheckTable[CHOOSE i \in RowsOf(e) : TRUE].w

RECURSIVE SumWeights(_, _)
\* Sum of the weights of the outcomes in details, all of them or the passed
\* ones only.
SumWeights(details, passedOnly) ==
    IF details = <<>> THEN 0
    ELSE (IF passedOnly /\ ~Head(details).ok THEN 0 ELSE WeightOf(Head(details)))
         + SumWeights(Tail(details), passedOnly)

Finished(r) == pc[r] \in {"done", "raised"}

\* Run r returned a score report.
Reported(r) == pc[r] = "done" /\ "score" \in result[r].keys

\* Where a run is after a given test was recorded.
AfterMethods == {"sandbox", "functional", "injection", "style", "done", "raised"}

AfterFunctional == {"injection", "style", "done"}

\* The outcome entry of check n in the details, if there is exactly one.
OutcomeOf(details, n) ==
    {details[k].ok : k \in {j \in 1..Len(details) :
        \E i \in RowsOf(details[j]) : CheckTable[i].n = n}}

(***************************************************************************)
(* Claims                                                                  *)
(***************************************************************************)

\* C1: in every score report 0 <= score <= max_score; max_score is the sum of
\* the weights of the checks attempted and score the sum of the weights of
\* the checks passed; max_score is 130 only when all eight checks ran.
C1_ScoreBounds ==
    \A r \in Runs :
        Reported(r) =>
            /\ 0 <= result[r].score /\ result[r].score <= result[r].max_score
            /\ result[r].max_score = SumWeights(result[r].details, FALSE)
            /\ result[r].score = SumWeights(result[r].details, TRUE)
            /\ result[r].max_score = 130 =>
                   Attempted(result[r].details) = 1..Len(CheckTable)

\* A full run that earned some but not all of the points.
C1_Witness ==
    \E r \in Runs :
        /\ Reported(r) /\ result[r].max_score = 130
        /\ result[r].score > 0 /\ result[r].score < 130

\* C2 as stated: with a valid manifest and no CRUD module file, the report
\* has max_score = 20, score = 0 and two detail entries, whatever the state
\* of the adapter file.
C2_Original ==
    \A r \in Runs :
        (Finished(r) /\ ReachesFiles /\ ~files.crud) =>
            /\ Reported(r)
            /\ result[r].max_score = 20 /\ result[r].score = 0
            /\ Len(result[r].details) = 2

\* C2 amended: with a manifest that names the CRUD module, the class and the
\* adapter path, and no CRUD module file, the report has max_score = 20 and
\* two detail entries; score is 10 when the adapter file exists, 0 otherwise.
C2_MissingCrudFile ==
    \A r \in Runs :
        (Finished(r) /\ ReachesFiles /\ ~files.crud) =>
            /\ Reported(r)
            /\ result[r].max_score = 20
            /\ result[r].score = IF files.db THEN 10 ELSE 0
            /\ Len(result[r].details) = 2
            /\ ChecksIn(result[r].details) = {1, 2}

\* The CRUD file is missing, the adapter file is there: 10 of 20.
C2_Witness ==
    \E r \in Runs :
        /\ Reported(r) /\ ~files.crud /\ files.db
        /\ result[r].score = 10 /\ result[r].max_score = 20

\* The submission of the concrete scenario of section 8: the documented
\* manifest, both files, a class with the four methods and no fault that
\* takes its connection from conn_override and binds parameters, a clean
\* linter.
CorrectSubmission ==
    /\ ReachesFunctional
    /\ meta.sample = "id_name" /\ meta.tables \in TableNames
    /\ cand.fault = NoFault /\ cand.sqlStyle = "bound"
    /\ cand.connVia # "adapter"
    /\ env = "clean"

\* C3 as stated: a correct, injection-safe, PEP8-clean submission scores
\* 130 of 130.
C3_Original ==
    \A r \in Runs :
        (Finished(r) /\ CorrectSubmission) =>
            /\ Reported(r)
            /\ result[r].score = 130 /\ result[r].max_score = 130

\* The instance of run r exists and lacks a required method.
MethodMissing == ReachesFiles /\ files.crud /\ cand.importOk /\ cand.methods # Methods

\* C4: when a required method is missing on the instance, the run halts
\* after the four method entries: seven entries, none for checks 5-8, and
\* max_score = 60.
C4_MethodGate ==
    \A r \in Runs :
        (MethodMissing /\ pc[r] \in AfterMethods) =>
            /\ Reported(r)
            /\ result[r].max_score = 60
            /\ Len(result[r].details) = 7
            /\ Attempted(result[r].details) = 1..7
            /\ ChecksIn(result[r].details) \cap {5, 6, 7, 8} = {}

\* A run halted by a class that has create, read and update but no delete.
C4_Witness ==
    \E r \in Runs :
        /\ Reported(r) /\ MethodMissing
        /\ cand.methods = Methods \ {"delete"}
        /\ result[r].max_score = 60 /\ result[r].score = 55

\* C5 as stated: no exception ever leaves evaluate_project.
C5_Original == \A r \in Runs : pc[r] # "raised"


\* The manifest is absent, unparseable, or an object without the CRUD module
\* path or without the class name.
BadManifest ==
    \/ meta.manifest \in {"absent", "malformed"}
    \/ meta.manifest = "object" /\ (~meta.crud_module \/ ~meta.crud_class)

\* C6 as stated: with such a manifest the run returns a report with only an
\* error message, attempts no check and loads no submission code; and no
\* report has both an error and a score.
C6_Original ==
    /\ \A r \in Runs :
          (Finished(r) /\ BadManifest) =>
              /\ pc[r] = "done" /\ result[r].keys = {"error"}
              /\ score[r] = NewScore /\ loaded[r] = {}
    /\ \A r \in Runs : ~({"error", "score"} \subseteq result[r].keys)

\* The injection test of run r has been recorded, and its table was created.
Probed(r) ==
    /\ ReachesFunctional /\ meta.tables \in TableNames
    /\ pc[r] \in {"style", "done"}

\* The table the harness created for the probe of run r is still there.
ProbeTableExists(r) == dbs[conn[r]][meta.tables].exists

\* C7 as stated, for the documented sample record and the candidate whose
\* create runs the concatenated text as a script and whose table is the one
\* the payload names: the probe's table is dropped and the injection check is
\* scored failing.
C7_Original ==
    \A r \in Runs :
        (/\ Probed(r) /\ meta.tables = "users" /\ meta.sample = "id_name"
         /\ cand.sqlStyle = "concat_script" /\ cand.fault = NoFault) =>
            /\ ~ProbeTableExists(r)
            /\ OutcomeOf(score[r].details, 7) = {FALSE}

\* C8 as stated, for the documented sample record: when create binds
\* parameters on a connection of the sandbox provider, the probe's table
\* survives and the injection check is scored passing.
C8_Original ==
    \A r \in Runs :
        (/\ Probed(r) /\ meta.sample = "id_name"
         /\ cand.sqlStyle = "bound" /\ cand.connVia # "adapter"
         /\ cand.fault = NoFault) =>
            /\ ProbeTableExists(r)
            /\ OutcomeOf(score[r].details, 7) = {TRUE}

RECURSIVE CheckSeq(_)
\* The checks of section 4.2 in the order of their outcome entries.
CheckSeq(details) ==
    IF details = <<>> THEN <<>>
    ELSE (IF RowsOf(Head(details)) = {} THEN <<>>
          ELSE <<CheckTable[CHOOSE i \in RowsOf(Head(details)) : TRUE].n>>)
         \o CheckSeq(Tail(details))

\* C9 as stated (the linter runs or is not installed): once checks 1-5 have
\* passed, checks 6, 7 and 8 are each recorded once, in that order, whatever
\* the candidate raises; max_score is 130 and the last entry is the style
\* check's.
C9_Original ==
    \A r \in Runs :
        (ReachesFunctional /\ Finished(r) /\ env # "not_executable") =>
            /\ Reported(r)
            /\ result[r].max_score = 130
            /\ CheckSeq(result[r].details) = <<1, 2, 3, 4, 4, 4, 4, 5, 6, 7, 8>>
            /\ RowsOf(result[r].details[Len(result[r].details)]) = {11}

IsFunctionalEntry(e) ==
    e.msg \in {"CRUD runtime error", "CRUD operations successfully executed",
               "CRUD functional test failed"}

\* What the functional check of a run recorded: its outcome and, when it
\* raised, the diagnostic.
FunctionalEntries(r) == SelectSeq(score[r].details, IsFunctionalEntry)

\* C10: two runs of the functional check on the same submission, each on
\* connections of the sandbox provider, record the same outcome (pass or
\* fail, and the same diagnostic): the second observes nothing of the first.
C10_SameOutcome ==
    \A r1, r2 \in Runs :
        (/\ ReachesFunctional /\ cand.connVia # "adapter"
         /\ pc[r1] \in AfterFunctional /\ pc[r2] \in AfterFunctional) =>
            FunctionalEntries(r1) = FunctionalEntries(r2)

\* Two runs whose functional check created its table and called create on a
\* connection of the sandbox provider.
C10_Witness ==
    \E r1, r2 \in Runs :
        /\ r1 # r2 /\ cand.connVia # "adapter"
        /\ pc[r1] = "done" /\ pc[r2] \in AfterFunctional
        /\ obj[r1].conn_override /\ obj[r2].conn_override
        /\ Len(FunctionalEntries(r2)) = 2


\* C11 as stated, for two runs of the same submission in two working
\* directories: each run's report is the one the run produces alone, so the
\* two reports are equal.
C11_Original ==
    \A r1, r2 \in Runs :
        (Finished(r1) /\ Finished(r2)) => result[r1] = result[r2]

\* C12 as stated: in every score report the number of detail entries equals
\* the number of checks attempted (the four method checks counted
\* separately), also when a check failed because of an exception.
C12_Original ==
    \A r \in Runs :
        Reported(r) =>
            Len(result[r].details) = Cardinality(Attempted(result[r].details))

\* The positions of the diagnostic lines in details.
Diagnostics(details) == {k \in 1..Len(details) : RowsOf(details[k]) = {}}

\* The entry at position k is the failed outcome of one of the checks in ns.
FailedOutcomeOf(details, k, ns) ==
    /\ k \in 1..Len(details) /\ ~details[k].ok
    /\ \E i \in RowsOf(details[k]) : CheckTable[i].n \in ns

\* C12 amended: in every score report each attempted check has exactly one
\* outcome entry; the only other entries are diagnostic lines, each placed
\* immediately before the failed outcome of check 3, 5 or 6, and a failed
\* check 3 or 5 always has one.
C12_OneOutcomePerCheck ==
    \A r \in Runs :
        Reported(r) =>
            LET d == result[r].details
            IN /\ Len(d) - Cardinality(Diagnostics(d)) = Cardinality(Attempted(d))
               /\ \A k \in Diagnostics(d) :
                      ~d[k].ok /\ FailedOutcomeOf(d, k + 1, {3, 5, 6})
               /\ \A k \in 1..Len(d) :
                      FailedOutcomeOf(d, k, {3, 5}) => (k - 1) \in Diagnostics(d)

\* A full report whose functional check raised: twelve entries for eleven
\* outcomes.
C12_Witness ==
    \E r \in Runs :
        /\ Reported(r) /\ result[r].max_score = 130
        /\ Len(result[r].details) = 12
        /\ \E k \in Diagnostics(result[r].details) :
               result[r].details[k].msg = "CRUD runtime error"

\* The connection factory cannot be substituted in the adapter module: the
\* adapter file is missing, fails to load, or does not define the attribute.
CannotSubstitute == ~files.db \/ ~files.dbLoads \/ ~files.dbHasFn

\* C13 as stated: when the checks before it passed and the factory cannot be
\* substituted, check 5 is recorded as failed with the sandboxing-failure
\* message and the run halts with max_score = 70, with no entry of checks
\* 6-8.
C13_Original ==
    \A r \in Runs :
        (ReachesSandbox /\ CannotSubstitute /\ pc[r] \in AfterMethods \ {"sandbox"}) =>
            /\ Reported(r)
            /\ result[r].max_score = 70
            /\ OutcomeOf(result[r].details, 5) = {FALSE}
            /\ ChecksIn(result[r].details) \cap {6, 7, 8} = {}

\* The import stage of the run is reached and fails: loading the module, the
\* class lookup or the constructor raises.
ImportFails == ReachesFiles /\ files.crud /\ ~cand.importOk

\* Where a run is after the import stage.
AfterImport == {"methods"} \cup AfterMethods

\* C14 as stated: when loading the CRUD module, looking the class up or instantiating
\* it raises, the exception is caught, the import check is recorded as
\* failed and the run halts with max_score = 40: a report is returned with
\* the diagnostic and the failed outcome of check 3 last, and no entry of
\* checks 4-8.
C14_Original ==
    \A r \in Runs :
        (ImportFails /\ pc[r] \in AfterImport) =>
            /\ Reported(r)
            /\ result[r].max_score = 40
            /\ OutcomeOf(result[r].details, 3) = {FALSE}
            /\ ChecksIn(result[r].details) = {1, 2, 3}
            /\ Len(result[r].details) = 4
            /\ result[r].details[3].msg = "Could not import CRUD class"
            /\ FailedOutcomeOf(result[r].details, 4, {3})

\* The four methods work when called in order with the sample record: none
\* raises, and read, update and delete find the record create inserted (the
\* methods share a database that has the candidate's table) and return a
\* truthy value.
MethodsWork ==
    /\ cand.fault = NoFault \/ Faulty("create", "falsy")
    /\ cand.connVia = "adapter" \/ (cand.connVia = "override_cached" /\ cand.ownSchema)

C16_Original ==
    \A r \in Runs :
        (/\ ReachesFunctional /\ meta.tables \in TableNames
         /\ "id" \in SampleKeys /\ pc[r] = "injection") =>
            /\ dbs[conn[r]][meta.tables].exists
            /\ obj[r].conn_override

\* The durable database as the submission ships it.
DurableAtStart == SqlEnsureTable(EmptyDB, CandTable)

\* C17 as stated: once the sandbox check has passed, every connection the
\* candidate acquires during the functional and injection checks is a
\* sandbox connection, so no candidate operation reaches durable storage: the
\* durable database stays as it was.
C17_Original ==
    \A r \in Runs :
        (ReachesFunctional /\ pc[r] \in AfterFunctional \cup {"raised"}) =>
            durable = DurableAtStart

\* C18: every acquisition from the sandbox provider returns a new, empty
\* in-memory database. What the candidate writes through the connections it
\* acquires is never visible through a connection the harness acquired (no
\* row in the harness's database); and the tables the harness creates are
\* never visible through a connection the candidate acquires: a candidate
\* that creates no table itself finds none (its create fails with "no such
\* table", so no database of the provider ever holds a row).
C18_FreshConnections ==
    /\ \A r \in Runs :
          conn[r] # 0 => \A t \in TableNames : dbs[conn[r]][t].rows = {}
    /\ (cand.connVia # "adapter" /\ ~cand.ownSchema) =>
          /\ \A k \in 1..Len(dbs) : \A t \in TableNames : dbs[k][t].rows = {}
          /\ \A r \in Runs :
                (/\ pc[r] \in {"style", "done"} /\ obj[r].conn_override
                 /\ cand.fault.m # "create" /\ meta.tables \in TableNames) =>
                    caught[r] = "OperationalError: no such table"

\* The harness's connection has the probe's table, and the candidate has
\* rows in the database of another acquisition.
C18_Witness ==
    \E r \in Runs : \E k \in 1..Len(dbs) :
        /\ conn[r] # 0 /\ k # conn[r] /\ meta.tables \in TableNames
        /\ dbs[conn[r]][meta.tables].exists
        /\ dbs[k][CandTable].rows # {}

\* The fixed order of the score.add calls, by check.
FixedOrder == <<1, 2, 3, 4, 4, 4, 4, 5, 6, 7, 8>>

\* The lengths at which a gate (or the end) cuts the order: after check 2,
\* 3, 4, 5 and 8.
GateCuts == {2, 3, 7, 8, 11}

\* C19 as stated: the scored checks are at every moment a prefix of the fixed
\* order; every run that passes the manifest stage ends with finalize called
\* once, so with a score report, whose checks are the fixed order cut at a
\* gate point and whose max_score is one of 20, 40, 60, 70 or 130.
C19_Original ==
    \A r \in Runs :
        ReachesFiles =>
            /\ \E n \in 0..Len(FixedOrder) :
                   CheckSeq(score[r].details) = SubSeq(FixedOrder, 1, n)
            /\ Finished(r) =>
                   /\ Reported(r)
                   /\ result[r].max_score \in {20, 40, 60, 70, 130}
                   /\ \E n \in GateCuts :
                          CheckSeq(result[r].details) = SubSeq(FixedOrder, 1, n)

\* The injection check of run r has run, with a table name bound: the run is
\* past it, by a return or by an exception.
ProbeRan(r) ==
    /\ ReachesFunctional /\ meta.tables \in TableNames
    /\ pc[r] \in {"style", "done", "raised"}
    /\ OutcomeOf(score[r].details, 6) # {}

\* C20 as stated: for every candidate, once the injection check has run it
\* is scored: passing when the probe's CREATE TABLE and the candidate's
\* create completed without raising, failing when one of them raised.
C20_Original ==
    \A r \in Runs :
        ProbeRan(r) =>
            OutcomeOf(score[r].details, 7) = {caught[r] = "none"}

====
